---- MODULE Spec2Model ----
(***************************************************************************)
(* Job intake and dispatch pipeline of the distributed scheduler           *)
(* (service/job.go): stream assembly, transactional persistence, reload,   *)
(* and the synchronous / asynchronous execution trigger.                   *)
(*                                                                         *)
(* Two submissions run concurrently, one through SyncSubmit and one        *)
(* through AsyncSubmit, against one shared storage.  Every blocking call   *)
(* of a handler (stream.Recv, each repository call, the transaction's      *)
(* begin / commit / rollback, StartJob, SendAndClose) is one atomic step,  *)
(* so the steps of the two handlers and of the detached StartJob unit      *)
(* interleave freely.                                                      *)
(***************************************************************************)
EXTENDS Integers, Sequences, FiniteSets, TLC

(***************************************************************************)
(* Bounds and input domains                                                *)
(***************************************************************************)

\* The longest chunk sequence a client streams in one submission.
MaxChunks == 2

\* The two concurrent submissions: "s" runs SyncSubmit, "a" runs AsyncSubmit.
Procs == {"s", "a"}

Mode(p) == IF p = "s" THEN "sync" ELSE "async"

\* Field values a client may put in a chunk.
Names == {"job1"}

PluginSets == {<<>>, <<"p1", "p2">>}

Datas == {"x", "y"}

NotifyFlags == {TRUE}

\* job.SyncSubmitRequest / job.AsyncSubmitRequest as read by the assemblers
\* (the synchronous assembler never reads Type and IsNotify).
Chunks ==
  [Name : Names, PluginSet : PluginSets, Label : {"l1"}, Source : {"src1"},
   TaskExceptionOperation : {0}, Type : {"t1"}, IsNotify : NotifyFlags,
   Data : Datas]

\* Chunks with a second envelope, different from the first in every field.
OtherChunks ==
  [Name : {"job2"}, PluginSet : {<<"p2">>}, Label : {"l2"}, Source : {"src2"},
   TaskExceptionOperation : {1}, Type : {"t2"}, IsNotify : {FALSE},
   Data : Datas]

\* The chunks the assemblers are fed when they are checked on their own.
EnvelopeChunks == Chunks \cup OtherChunks

\* The calls a handler makes to its collaborators (transport, storage,
\* execution engine).
Calls ==
  {"Recv", "Begin", "Save", "BatchSave", "Commit", "FindById", "List",
   "StartJob", "SendAndClose"}

\* The error a failing call returns: one error value per call, so that an
\* error can be told from every other one wherever it ends up.
ErrOf(op) == op \o ".err"

\* Errors the collaborators may return.
ExtErrs == { ErrOf(op) : op \in Calls }

\* What a call returns: nil or its error.
Outcomes(op) == {"nil", ErrOf(op)}

\* What StartJob may leave in the job it was handed, and what it returns.
EngineOutcomes ==
  { [Status |-> "done", Result |-> "R", err |-> "nil"],
    [Status |-> "partial", Result |-> "R2", err |-> "nil"],
    [Status |-> "failed", Result |-> "", err |-> ErrOf("StartJob")] }

(***************************************************************************)
(* Values                                                                  *)
(***************************************************************************)

\* errCode.ToGrpcErr(errCode.ErrPluginSetEmpty)
ErrPluginSetEmpty == "ErrPluginSetEmpty"

\* errCode.ToGrpcErr(errCode.ErrJobNotFound)
ErrJobNotFound == "ErrJobNotFound"

\* A nil *model.Job.
NilJob == [IsNil |-> TRUE]

\* strings.Join(elems, sep)
RECURSIVE Join(_, _)
Join(elems, sep) ==
  IF Len(elems) = 0 THEN ""
  ELSE IF Len(elems) = 1 THEN elems[1]
  ELSE elems[1] \o sep \o Join(Tail(elems), sep)

\* fmt.Sprintf("%s-%d", name, sharding)
TaskName(name, sharding) == name \o "-" \o ToString(sharding)

\* &model.Job{...} of receiveSyncJobStream; the fields not listed are zero.
NewSyncJob(r) ==
  [IsNil |-> FALSE, Id |-> 0, Name |-> r.Name, Type |-> "",
   PluginSet |-> Join(r.PluginSet, ","), IsAsync |-> 0, IsNotify |-> 0,
   Label |-> r.Label, Source |-> r.Source,
   TaskExceptionOperation |-> r.TaskExceptionOperation,
   Size |-> 0, Status |-> "", Result |-> ""]

\* The asynchronous assembler leaves the label out.
NewAsyncJobLabelDropped(r) ==
  [IsNil |-> FALSE, Id |-> 0, Name |-> r.Name, Type |-> r.Type,
   PluginSet |-> Join(r.PluginSet, ","), IsAsync |-> 1,
   IsNotify |-> IF r.IsNotify THEN 1 ELSE 0,
   Label |-> "", Source |-> r.Source,
   TaskExceptionOperation |-> r.TaskExceptionOperation,
   Size |-> 0, Status |-> "", Result |-> ""]

\* &model.Job{...} of receiveAsyncJobStream, with the IsNotify assignment.
NewAsyncJob(r) ==
  [IsNil |-> FALSE, Id |-> 0, Name |-> r.Name, Type |-> r.Type,
   PluginSet |-> Join(r.PluginSet, ","), IsAsync |-> 1,
   IsNotify |-> IF r.IsNotify THEN 1 ELSE 0,
   Label |-> r.Label, Source |-> r.Source,
   TaskExceptionOperation |-> r.TaskExceptionOperation,
   Size |-> 0, Status |-> "", Result |-> ""]

NewJob(mode, r) == IF mode = "sync" THEN NewSyncJob(r) ELSE NewAsyncJob(r)

\* &model.Task{Sharding, Name, Input, Plugin}; the fields not listed are zero.
NewTask(jobName, sharding, data, firstPlugin) ==
  [Id |-> 0, JobId |-> 0, Sharding |-> sharding,
   Name |-> TaskName(jobName, sharding), Input |-> data,
   Plugin |-> firstPlugin, Status |-> "", Output |-> ""]

\* The counter is never advanced.
NextShardingStuck(sharding) == sharding

\* sharding++
NextSharding(sharding) == sharding + 1

\* dto.JobInfo.AppendSafeTask: appends the task to the aggregate's task list.
AppendSafeTask(jobInfo, task) ==
  [jobInfo EXCEPT !.TaskList = Append(@, task)]

\* &dto.JobInfo{}
EmptyJobInfo == [Job |-> NilJob, TaskList |-> <<>>]

\* Every chunk initialises the job and names the plugin anew.
AssembleChunkLatestEnvelope(mode, jobInfo, firstPlugin, sharding, r) ==
  LET withJob == [jobInfo EXCEPT !.Job = NewJob(mode, r)]
      plugin  == r.PluginSet[1]
  IN [jobInfo     |-> AppendSafeTask(withJob,
                        NewTask(withJob.Job.Name, sharding, r.Data, plugin)),
      firstPlugin |-> plugin,
      sharding    |-> NextSharding(sharding)]

\* The loop body of the assemblers for a chunk with a non-empty plugin list.
AssembleChunk(mode, jobInfo, firstPlugin, sharding, r) ==
  LET withJob == IF jobInfo.Job.IsNil
                 THEN [jobInfo EXCEPT !.Job = NewJob(mode, r)]
                 ELSE jobInfo
      plugin  == IF jobInfo.Job.IsNil THEN r.PluginSet[1] ELSE firstPlugin
  IN [jobInfo     |-> AppendSafeTask(withJob,
                        NewTask(withJob.Job.Name, sharding, r.Data, plugin)),
      firstPlugin |-> plugin,
      sharding    |-> NextSharding(sharding)]

\* jobInfo.Job.Size = int32(len(jobInfo.TaskList))
SetSize(jobInfo) == [jobInfo EXCEPT !.Job.Size = Len(jobInfo.TaskList)]

\* The tasks keep the job identifier they were built with.
StampJobIdSkipped(jobInfo) == jobInfo

\* Only the first task of the list is stamped.
StampJobIdFirstOnly(jobInfo) ==
  [jobInfo EXCEPT !.TaskList =
     [i \in 1..Len(jobInfo.TaskList) |->
        IF i = 1
        THEN [jobInfo.TaskList[i] EXCEPT !.JobId = jobInfo.Job.Id]
        ELSE jobInfo.TaskList[i]]]

\* for _, item := range jobInfo.TaskList { item.JobId = jobInfo.Job.Id }
StampJobId(jobInfo) ==
  [jobInfo EXCEPT !.TaskList =
     [i \in 1..Len(jobInfo.TaskList) |->
        [jobInfo.TaskList[i] EXCEPT !.JobId = jobInfo.Job.Id]]]

(***************************************************************************)
(* Storage: the repositories over a transactional store                    *)
(***************************************************************************)

\* No rows.
NoRows == [jobs |-> {}, tasks |-> {}]

\* A transaction that is not open.
NoTx == [open |-> FALSE, jobs |-> {}, tasks |-> {}]

\* JobRepository.Save on a job without identifier: the store generates the
\* identifier and the row is written through the handle it is given.
JobRow(job, id) == [job EXCEPT !.Id = id]

\* TaskRepository.BatchSave: the first k tasks of the list as rows, with
\* generated identifiers firstId, firstId + 1, ...
TaskRows(taskList, k, firstId) ==
  { [taskList[i] EXCEPT !.Id = firstId + i - 1] : i \in 1..k }

\* JobRepository.FindById on the committed rows: the row, or nil.
FindById(rows, id) ==
  LET hit == { j \in rows.jobs : j.Id = id }
  IN IF hit = {} THEN NilJob ELSE CHOOSE j \in hit : TRUE

\* Rows in ascending order of their generated identifier.
RECURSIVE SortById(_)
SortById(rows) ==
  IF rows = {} THEN <<>>
  ELSE LET first == CHOOSE t \in rows : \A u \in rows : t.Id <= u.Id
       IN <<first>> \o SortById(rows \ {first})

\* TaskRepository.List on the committed rows with the filter {"jobId": id}.
List(rows, filter) == SortById({ t \in rows.tasks : t.JobId = filter.jobId })

\* The filter reloadJobInfo hands to TaskRepository.List.
ReloadFilter(jobInfo) == [jobId |-> jobInfo.Job.Id]

\* gorm's Transaction on commit: the rows written through tx become visible.
Committed(rows, t) ==
  [jobs |-> rows.jobs \cup t.jobs, tasks |-> rows.tasks \cup t.tasks]

\* gorm's Transaction on a callback error: the rows written through tx vanish.
RolledBack(rows, t) == rows

(***************************************************************************)
(* Responses                                                               *)
(***************************************************************************)

\* A response that carries the identifier alone.
SyncSubmitResponseIdOnly(jobInfo) ==
  [Id |-> jobInfo.Job.Id, Status |-> "", Result |-> ""]

\* &job.SyncSubmitResponse{Id, Status, Result}
SyncSubmitResponse(jobInfo) ==
  [Id |-> jobInfo.Job.Id, Status |-> jobInfo.Job.Status,
   Result |-> jobInfo.Job.Result]

\* &job.AsyncSubmitResponse{Id}
AsyncSubmitResponse(jobInfo) == [Id |-> jobInfo.Job.Id]

(***************************************************************************)
(* State                                                                   *)
(***************************************************************************)

VARIABLES
  pc,          \* where each handler stands
  received,    \* the chunks stream.Recv has delivered to each handler so far
  jobInfo,     \* each handler's *dto.JobInfo
  firstPlugin, \* the assembler's firstPlugin
  sharding,    \* the assembler's sharding counter
  err,         \* the error the transaction callback returned
  ret,         \* what the handler returned: "running", "nil", an error, "panic"
  response,    \* the message handed to stream.SendAndClose, if any
  tx,          \* the rows each handler has written through its open transaction
  db,          \* the committed rows, visible to every reader
  nextJobId,   \* the store's next generated job identifier
  nextTaskId,  \* the store's next generated task identifier
  go,          \* the detached StartJob unit of the asynchronous handler
  engine,      \* what StartJob did to the job it was handed
  hist,        \* the calls each handler has made, in order, with their outcomes
  assigned,    \* the identifier the store generated for each handler's job
  notify       \* what the AsyncNotify calls made so far came to

vars ==
  <<pc, received, jobInfo, firstPlugin, sharding, err, ret, response, tx, db,
    nextJobId, nextTaskId, go, engine, hist, assigned, notify>>

NotStarted == [Status |-> "", Result |-> "", err |-> "none"]

Init ==
  /\ pc = [p \in Procs |-> "recv"]
  /\ received = [p \in Procs |-> <<>>]
  /\ jobInfo = [p \in Procs |-> EmptyJobInfo]
  /\ firstPlugin = [p \in Procs |-> ""]
  /\ sharding = [p \in Procs |-> 0]
  /\ err = [p \in Procs |-> "nil"]
  /\ ret = [p \in Procs |-> "running"]
  /\ response = [p \in Procs |-> <<>>]
  /\ tx = [p \in Procs |-> NoTx]
  /\ db = NoRows
  /\ nextJobId = 1
  /\ nextTaskId = 1
  /\ go = [p \in Procs |-> "none"]
  /\ engine = [p \in Procs |-> NotStarted]
  /\ hist = [p \in Procs |-> <<>>]
  /\ assigned = [p \in Procs |-> 0]
  /\ notify = "none"

\* The handler returns e: nothing of it runs afterwards.
Return(p, e) ==
  /\ pc' = [pc EXCEPT ![p] = "done"]
  /\ ret' = [ret EXCEPT ![p] = e]

\* The handler's call of op ended with out.
Step(p, op, out) ==
  hist' = [hist EXCEPT ![p] = Append(@, [op |-> op, out |-> out])]

(***************************************************************************)
(* Stream assembly: receiveSyncJobStream / receiveAsyncJobStream           *)
(***************************************************************************)

\* Only the chunk that initialises the job is checked.
PluginSetEmptyFirstOnly(info, r) == info.Job.IsNil /\ Len(r.PluginSet) = 0

\* len(r.PluginSet) == 0
PluginSetEmpty(info, r) == Len(r.PluginSet) = 0

\* stream.Recv() delivers the chunk r.
RecvChunk(p, r) ==
  /\ pc[p] = "recv"
  /\ Len(received[p]) < MaxChunks
  /\ received' = [received EXCEPT ![p] = Append(@, r)]
  /\ Step(p, "Recv", "chunk")
  /\ IF PluginSetEmpty(jobInfo[p], r)
     THEN /\ Return(p, ErrPluginSetEmpty)
          /\ UNCHANGED <<jobInfo, firstPlugin, sharding>>
     ELSE LET a == AssembleChunk(Mode(p), jobInfo[p], firstPlugin[p],
                                 sharding[p], r)
          IN /\ jobInfo' = [jobInfo EXCEPT ![p] = a.jobInfo]
             /\ firstPlugin' = [firstPlugin EXCEPT ![p] = a.firstPlugin]
             /\ sharding' = [sharding EXCEPT ![p] = a.sharding]
             /\ UNCHANGED <<pc, ret>>
  /\ UNCHANGED <<notify, assigned, err, response, tx, db, nextJobId, nextTaskId, go, engine>>

Recv(p) == \E r \in Chunks : RecvChunk(p, r)

\* stream.Recv() fails with an error other than io.EOF.
RecvErr(p) ==
  /\ pc[p] = "recv"
  /\ LET e == ErrOf("Recv")
     IN /\ Return(p, e)
        /\ Step(p, "Recv", e)
  /\ UNCHANGED <<notify, assigned, received, jobInfo, firstPlugin, sharding, err, response, tx,
                 db, nextJobId, nextTaskId, go, engine>>

\* A handler that has neither returned nor died.
Alive(q) == pc[q] \notin {"done", "dead"}

\* A panic in handler p that nothing recovers ends the server process: every
\* handler and detached unit dies (a unit not yet scheduled never starts) and
\* the store drops the open transactions.
ProcessExit(p) ==
  /\ pc' = [q \in Procs |-> IF q = p \/ Alive(q) THEN "dead" ELSE pc[q]]
  /\ ret' = [q \in Procs |-> IF q = p THEN "panic"
                             ELSE IF Alive(q) THEN "killed" ELSE ret[q]]
  /\ go' = [q \in Procs |-> IF go[q] = "spawned" THEN "unstarted"
                            ELSE IF go[q] = "running" THEN "killed"
                            ELSE go[q]]
  /\ tx' = [q \in Procs |-> NoTx]

\* stream.Recv() returns io.EOF: the loop ends and Job.Size is set; SyncSubmit
\* then sets IsAsync = 0.  With no chunk received jobInfo.Job is nil and the
\* assignment to its Size field panics; the transport's interceptors either
\* recover the panic (this call alone fails) or the process exits.
RecvEOF(p) ==
  /\ pc[p] = "recv"
  /\ Step(p, "Recv", "EOF")
  /\ IF jobInfo[p].Job.IsNil
     THEN /\ \E recovered \in BOOLEAN :
               IF recovered
               THEN Return(p, "panic") /\ UNCHANGED <<go, tx>>
               ELSE ProcessExit(p)
          /\ UNCHANGED jobInfo
     ELSE /\ jobInfo' =
               [jobInfo EXCEPT ![p] =
                  IF Mode(p) = "sync"
                  THEN [SetSize(@) EXCEPT !.Job.IsAsync = 0]
                  ELSE SetSize(@)]
          /\ pc' = [pc EXCEPT ![p] = "persist"]
          /\ UNCHANGED <<ret, go, tx>>
  /\ UNCHANGED <<notify, assigned, received, firstPlugin, sharding, err, response, db,
                 nextJobId, nextTaskId, engine>>

(***************************************************************************)
(* Persistence: s.appCtx.Db.Transaction(func(tx) ...)                      *)
(***************************************************************************)

\* The job is saved through the plain connection, outside the transaction.
SaveHandleDb == "db"

\* The handle persistence gives to jobRepo.Save: the transaction's.
SaveHandle == "tx"

\* The handle persistence gives to taskRepo.BatchSave: the transaction's.
BatchSaveHandle == "tx"

\* The callback drops BatchSave's error.
CallbackResultDropped(out) == "nil"

\* What the transaction callback returns after BatchSave returned out.
CallbackResult(out) == out

\* Rows written through a handle: pending in the handler's transaction, or
\* (through the plain connection) committed at once.
Write(p, handle, rows) ==
  IF handle = "tx"
  THEN /\ tx' = [tx EXCEPT ![p] = Committed(@, rows)]
       /\ UNCHANGED db
  ELSE /\ db' = Committed(db, rows)
       /\ UNCHANGED tx

\* Db.Transaction begins the transaction, or fails to.
TxBegin(p) ==
  /\ pc[p] = "persist"
  /\ \E out \in Outcomes("Begin") :
       /\ Step(p, "Begin", out)
       /\ IF out = "nil"
          THEN /\ tx' = [tx EXCEPT ![p] = [NoTx EXCEPT !.open = TRUE]]
               /\ pc' = [pc EXCEPT ![p] = "save"]
               /\ UNCHANGED ret
          ELSE /\ Return(p, out)
               /\ UNCHANGED tx
  /\ UNCHANGED <<notify, assigned, received, jobInfo, firstPlugin, sharding, err, response, db,
                 nextJobId, nextTaskId, go, engine>>

\* s.jobRepo.Save(tx, jobInfo.Job): the store assigns the identifier.
JobSave(p) ==
  /\ pc[p] = "save"
  /\ \E out \in Outcomes("Save") :
       /\ Step(p, "Save", out)
       /\ IF out = "nil"
          THEN /\ jobInfo' = [jobInfo EXCEPT ![p].Job.Id = nextJobId]
               /\ Write(p, SaveHandle,
                        [jobs |-> {JobRow(jobInfo[p].Job, nextJobId)},
                         tasks |-> {}])
               /\ nextJobId' = nextJobId + 1
               /\ assigned' = [assigned EXCEPT ![p] = nextJobId]
               /\ pc' = [pc EXCEPT ![p] = "batch"]
               /\ UNCHANGED err
          ELSE /\ err' = [err EXCEPT ![p] = out]
               /\ pc' = [pc EXCEPT ![p] = "rollback"]
               /\ UNCHANGED <<jobInfo, tx, db, nextJobId, assigned>>
  /\ UNCHANGED <<notify, received, firstPlugin, sharding, ret, response, nextTaskId,
                 go, engine>>

\* The stamping loop and s.taskRepo.BatchSave(tx, jobInfo.TaskList).  A failed
\* batch may have inserted any proper prefix of the list before it failed.
TaskBatchSave(p) ==
  /\ pc[p] = "batch"
  /\ LET stamped == StampJobId(jobInfo[p])
         n       == Len(stamped.TaskList)
     IN /\ jobInfo' = [jobInfo EXCEPT ![p] = stamped]
        /\ \E out \in Outcomes("BatchSave") :
             /\ Step(p, "BatchSave", out)
             /\ \E k \in IF out = "nil" THEN {n} ELSE 0..(n - 1) :
                  /\ Write(p, BatchSaveHandle,
                           [jobs |-> {},
                            tasks |-> TaskRows(stamped.TaskList, k,
                                               nextTaskId)])
                  /\ nextTaskId' = nextTaskId + k
             /\ err' = [err EXCEPT ![p] = CallbackResult(out)]
             /\ pc' = [pc EXCEPT ![p] =
                         IF CallbackResult(out) = "nil"
                         THEN "commit" ELSE "rollback"]
  /\ UNCHANGED <<notify, assigned, received, firstPlugin, sharding, ret, response, nextJobId,
                 go, engine>>

\* The handler goes from the commit straight to the dispatch, without reload.
TxCommitThenDispatch(p) ==
  /\ pc[p] = "commit"
  /\ \E out \in Outcomes("Commit") :
       /\ Step(p, "Commit", out)
       /\ IF out = "nil"
          THEN /\ db' = Committed(db, tx[p])
               /\ pc' = [pc EXCEPT ![p] = "start"]
               /\ UNCHANGED ret
          ELSE /\ db' = RolledBack(db, tx[p])
               /\ Return(p, out)
  /\ tx' = [tx EXCEPT ![p] = NoTx]
  /\ UNCHANGED <<notify, assigned, received, jobInfo, firstPlugin, sharding, err,
                 response, nextJobId, nextTaskId, go, engine>>

\* The callback returned nil: Db.Transaction commits and returns the commit's
\* outcome; a failed commit leaves nothing visible.
TxCommit(p) ==
  /\ pc[p] = "commit"
  /\ \E out \in Outcomes("Commit") :
       /\ Step(p, "Commit", out)
       /\ IF out = "nil"
          THEN /\ db' = Committed(db, tx[p])
               /\ pc' = [pc EXCEPT ![p] = "find"]
               /\ UNCHANGED ret
          ELSE /\ db' = RolledBack(db, tx[p])
               /\ Return(p, out)
  /\ tx' = [tx EXCEPT ![p] = NoTx]
  /\ UNCHANGED <<notify, assigned, received, jobInfo, firstPlugin, sharding, err, response,
                 nextJobId, nextTaskId, go, engine>>

\* The callback returned an error: Db.Transaction rolls back and returns that
\* error, which persistence and the handler return in turn.
TxRollback(p) ==
  /\ pc[p] = "rollback"
  /\ Step(p, "Rollback", err[p])
  /\ db' = RolledBack(db, tx[p])
  /\ tx' = [tx EXCEPT ![p] = NoTx]
  /\ Return(p, err[p])
  /\ UNCHANGED <<notify, assigned, received, jobInfo, firstPlugin, sharding, err, response,
                 nextJobId, nextTaskId, go, engine>>

(***************************************************************************)
(* Reload: reloadJobInfo                                                   *)
(***************************************************************************)

\* An absent row makes the reload ask again instead of failing.
ReloadFindRetry(p) ==
  /\ pc[p] = "find"
  /\ \E out \in {"row", "absent", ErrOf("FindById")} :
       LET found == IF out = "row"
                    THEN FindById(db, jobInfo[p].Job.Id) ELSE NilJob
       IN IF out \in ExtErrs
          THEN /\ jobInfo' = [jobInfo EXCEPT ![p].Job = found]
               /\ Step(p, "FindById", out) /\ Return(p, out)
          ELSE IF found.IsNil
          THEN /\ Step(p, "FindById", "absent")
               /\ UNCHANGED <<jobInfo, pc, ret>>
          ELSE /\ jobInfo' = [jobInfo EXCEPT ![p].Job = found]
               /\ Step(p, "FindById", "row")
               /\ pc' = [pc EXCEPT ![p] = "list"]
               /\ UNCHANGED ret
  /\ UNCHANGED <<notify, assigned, received, firstPlugin, sharding, err,
                 response, tx, db, nextJobId, nextTaskId, go, engine>>

\* s.jobRepo.FindById(s.appCtx.Db, jobInfo.Job.Id) and the two checks after
\* it.  The repository returns the committed row, or an error, or (absent)
\* no row and no error although the row was committed.
ReloadFind(p) ==
  /\ pc[p] = "find"
  /\ \E out \in {"row", "absent", ErrOf("FindById")} :
       LET found == IF out = "row"
                    THEN FindById(db, jobInfo[p].Job.Id) ELSE NilJob
       IN /\ jobInfo' = [jobInfo EXCEPT ![p].Job = found]
          /\ IF out \in ExtErrs
             THEN Step(p, "FindById", out) /\ Return(p, out)
             ELSE IF found.IsNil
             THEN Step(p, "FindById", "absent") /\ Return(p, ErrJobNotFound)
             ELSE /\ Step(p, "FindById", "row")
                  /\ pc' = [pc EXCEPT ![p] = "list"]
                  /\ UNCHANGED ret
  /\ UNCHANGED <<notify, assigned, received, firstPlugin, sharding, err, response, tx, db,
                 nextJobId, nextTaskId, go, engine>>

\* The handler goes on to the dispatch whatever List returned.
ReloadListErrIgnored(p) ==
  /\ pc[p] = "list"
  /\ \E out \in Outcomes("List") :
       /\ Step(p, "List", out)
       /\ jobInfo' = [jobInfo EXCEPT ![p].TaskList =
                        IF out = "nil"
                        THEN List(db, ReloadFilter(jobInfo[p])) ELSE <<>>]
       /\ pc' = [pc EXCEPT ![p] = "start"]
  /\ UNCHANGED <<notify, assigned, received, firstPlugin, sharding, err, ret,
                 response, tx, db, nextJobId, nextTaskId, go, engine>>

\* s.taskRepo.List(s.appCtx.Db, {"jobId": jobInfo.Job.Id})
ReloadList(p) ==
  /\ pc[p] = "list"
  /\ \E out \in Outcomes("List") :
       /\ Step(p, "List", out)
       /\ IF out = "nil"
          THEN /\ jobInfo' = [jobInfo EXCEPT ![p].TaskList =
                                List(db, ReloadFilter(jobInfo[p]))]
               /\ pc' = [pc EXCEPT ![p] = "start"]
               /\ UNCHANGED ret
          ELSE /\ jobInfo' = [jobInfo EXCEPT ![p].TaskList = <<>>]
               /\ Return(p, out)
  /\ UNCHANGED <<notify, assigned, received, firstPlugin, sharding, err, response, tx, db,
                 nextJobId, nextTaskId, go, engine>>

(***************************************************************************)
(* Dispatch and response                                                   *)
(***************************************************************************)

\* StartJob works on the *dto.JobInfo it is handed: it may set the job's
\* status and result, and it returns nil or an error.
StartJobEffect(info, o) ==
  [info EXCEPT !.Job.Status = o.Status, !.Job.Result = o.Result]

\* SyncSubmit calls s.appCtx.StartJob(jobInfo) and blocks in it.
SyncStartJob(p) ==
  /\ Mode(p) = "sync"
  /\ pc[p] = "start"
  /\ Step(p, "StartJob", "called")
  /\ pc' = [pc EXCEPT ![p] = "exec"]
  /\ UNCHANGED <<notify, assigned, received, jobInfo, firstPlugin, sharding, err, ret, response,
                 tx, db, nextJobId, nextTaskId, go, engine>>

\* A failed StartJob makes SyncSubmit delete the rows it committed.
SyncStartJobReturnCompensating(p) ==
  /\ Mode(p) = "sync"
  /\ pc[p] = "exec"
  /\ \E o \in EngineOutcomes :
       /\ Step(p, "StartJobReturn", o.err)
       /\ jobInfo' = [jobInfo EXCEPT ![p] = StartJobEffect(@, o)]
       /\ engine' = [engine EXCEPT ![p] = o]
       /\ IF o.err = "nil"
          THEN pc' = [pc EXCEPT ![p] = "send"] /\ UNCHANGED <<ret, db>>
          ELSE /\ Return(p, o.err)
               /\ db' = [jobs  |-> { j \in db.jobs : j.Id # assigned[p] },
                         tasks |-> { t \in db.tasks : t.JobId # assigned[p] }]
  /\ UNCHANGED <<notify, assigned, received, firstPlugin, sharding, err,
                 response, tx, nextJobId, nextTaskId, go>>

\* StartJob returns to SyncSubmit, which returns its error if there is one.
SyncStartJobReturn(p) ==
  /\ Mode(p) = "sync"
  /\ pc[p] = "exec"
  /\ \E o \in EngineOutcomes :
       /\ Step(p, "StartJobReturn", o.err)
       /\ jobInfo' = [jobInfo EXCEPT ![p] = StartJobEffect(@, o)]
       /\ engine' = [engine EXCEPT ![p] = o]
       /\ IF o.err = "nil"
          THEN pc' = [pc EXCEPT ![p] = "send"] /\ UNCHANGED ret
          ELSE Return(p, o.err)
  /\ UNCHANGED <<notify, assigned, received, firstPlugin, sharding, err, response, tx, db,
                 nextJobId, nextTaskId, go>>

\* StartJob is called on the request path, which waits for it.
AsyncSpawnBlocking(p) ==
  /\ Mode(p) = "async"
  /\ pc[p] = "start"
  /\ Step(p, "go", "spawned")
  /\ go' = [go EXCEPT ![p] = "spawned"]
  /\ pc' = [pc EXCEPT ![p] = "exec"]
  /\ UNCHANGED <<notify, assigned, received, jobInfo, firstPlugin, sharding, err,
                 ret, response, tx, db, nextJobId, nextTaskId, engine>>

\* AsyncSubmit's go statement: the detached unit exists, the handler goes on.
AsyncSpawn(p) ==
  /\ Mode(p) = "async"
  /\ pc[p] = "start"
  /\ Step(p, "go", "spawned")
  /\ go' = [go EXCEPT ![p] = "spawned"]
  /\ pc' = [pc EXCEPT ![p] = "send"]
  /\ UNCHANGED <<notify, assigned, received, jobInfo, firstPlugin, sharding, err, ret, response,
                 tx, db, nextJobId, nextTaskId, engine>>

\* The detached unit is scheduled and calls s.appCtx.StartJob(jobInfo).
GoStartJob(p) ==
  /\ go[p] = "spawned"
  /\ go' = [go EXCEPT ![p] = "running"]
  /\ UNCHANGED <<notify, assigned, pc, received, jobInfo, firstPlugin, sharding, err, ret,
                 response, tx, db, nextJobId, nextTaskId, engine, hist>>

\* StartJob's error reaches the handler, which returns it if it still runs.
GoStartJobReturnReported(p) ==
  /\ go[p] = "running"
  /\ \E o \in EngineOutcomes :
       /\ jobInfo' = [jobInfo EXCEPT ![p] = StartJobEffect(@, o)]
       /\ engine' = [engine EXCEPT ![p] = o]
       /\ IF o.err # "nil" /\ pc[p] = "send"
          THEN Return(p, o.err)
          ELSE UNCHANGED <<pc, ret>>
  /\ go' = [go EXCEPT ![p] = "returned"]
  /\ UNCHANGED <<notify, assigned, received, firstPlugin, sharding, err,
                 response, tx, db, nextJobId, nextTaskId, hist>>

\* StartJob returns in the detached unit, which drops its error.
GoStartJobReturn(p) ==
  /\ go[p] = "running"
  /\ \E o \in EngineOutcomes :
       /\ jobInfo' = [jobInfo EXCEPT ![p] = StartJobEffect(@, o)]
       /\ engine' = [engine EXCEPT ![p] = o]
  /\ go' = [go EXCEPT ![p] = "returned"]
  /\ UNCHANGED <<notify, assigned, pc, received, firstPlugin, sharding, err, ret, response, tx,
                 db, nextJobId, nextTaskId, hist>>

\* The message the handler hands to stream.SendAndClose.
ResponseOf(mode, info) ==
  IF mode = "sync" THEN SyncSubmitResponse(info) ELSE AsyncSubmitResponse(info)

\* The handler marks the job as answered before it responds.
SendAndCloseMarking(p) ==
  /\ pc[p] = "send"
  /\ \E out \in Outcomes("SendAndClose") :
       /\ Step(p, "SendAndClose", out)
       /\ Return(p, out)
  /\ response' = [response EXCEPT ![p] = <<ResponseOf(Mode(p), jobInfo[p])>>]
  /\ jobInfo' = [jobInfo EXCEPT ![p].Job.Status = "answered"]
  /\ UNCHANGED <<notify, assigned, received, firstPlugin, sharding, err, tx,
                 db, nextJobId, nextTaskId, go, engine>>

\* return stream.SendAndClose(...): the handler returns the transport's outcome.
SendAndClose(p) ==
  /\ pc[p] = "send"
  /\ \E out \in Outcomes("SendAndClose") :
       /\ Step(p, "SendAndClose", out)
       /\ Return(p, out)
  /\ response' = [response EXCEPT ![p] = <<ResponseOf(Mode(p), jobInfo[p])>>]
  /\ UNCHANGED <<notify, assigned, received, jobInfo, firstPlugin, sharding, err, tx, db,
                 nextJobId, nextTaskId, go, engine>>

(***************************************************************************)
(* Specification                                                           *)
(***************************************************************************)

Next ==
  \E p \in Procs :
    \/ Recv(p)
    \/ RecvErr(p)
    \/ RecvEOF(p)
    \/ TxBegin(p)
    \/ JobSave(p)
    \/ TaskBatchSave(p)
    \/ TxCommit(p)
    \/ TxRollback(p)
    \/ ReloadFind(p)
    \/ ReloadList(p)
    \/ SyncStartJob(p)
    \/ SyncStartJobReturn(p)
    \/ AsyncSpawn(p)
    \/ GoStartJob(p)
    \/ GoStartJobReturn(p)
    \/ SendAndClose(p)

Spec == Init /\ [][Next]_vars

(***************************************************************************)
(* The two assemblers on their own, over chunks of differing envelopes     *)
(***************************************************************************)

RecvAny(p) == \E r \in EnvelopeChunks : RecvChunk(p, r)

NextAsm == \E p \in Procs : RecvAny(p) \/ RecvErr(p) \/ RecvEOF(p)

SpecAsm == Init /\ [][NextAsm]_vars

(***************************************************************************)
(* AsyncNotify                                                             *)
(***************************************************************************)

\* AsyncNotify(ctx, req): panic("not implemented"), whatever the request.  The
\* handler never returns; the transport's interceptors either recover the
\* panic (this call alone fails) or the process exits, and then the server
\* takes no further call.
AsyncNotify ==
  /\ notify # "exit"
  /\ \E recovered \in BOOLEAN :
       IF recovered
       THEN /\ notify' = "panic"
            /\ UNCHANGED <<pc, ret, go, tx>>
       ELSE /\ notify' = "exit"
            /\ ProcessExit("AsyncNotify")
  /\ UNCHANGED <<received, jobInfo, firstPlugin, sharding, err, response, db,
                 nextJobId, nextTaskId, engine, hist, assigned>>

\* The submissions together with calls of AsyncNotify at any moment.
NextNotify == Next \/ AsyncNotify

SpecNotify == Init /\ [][NextNotify]_vars

(***************************************************************************)
(* Properties                                                              *)
(***************************************************************************)

\* The handler's call of op ended with out.
DidOut(p, op, out) ==
  \E i \in 1..Len(hist[p]) : hist[p][i].op = op /\ hist[p][i].out = out

\* The handler called op.
Did(p, op) == \E i \in 1..Len(hist[p]) : hist[p][i].op = op

\* The handler's call of op failed.
Failed(p, op) == DidOut(p, op, ErrOf(op))

\* The assembler of p has read the end of its stream.
StreamEnded(p) == DidOut(p, "Recv", "EOF")

\* Every chunk delivered to p has a non-empty plugin list.
AllPluginSetsNonEmpty(p) ==
  \A i \in 1..Len(received[p]) : Len(received[p][i].PluginSet) > 0

\* C1: after the end of a non-empty stream of n chunks that all have a
\* non-empty plugin list, the assembler (synchronous or asynchronous) has
\* returned without error a task list of n tasks whose i-th task has shard
\* index i - 1 and the i-th chunk's payload as input, and Job.Size = n.
\* (Stated on the assembled aggregate, before the reload replaces it.)
C1_ShardIndicesInStreamOrder ==
  \A p \in Procs :
    (StreamEnded(p) /\ Len(received[p]) > 0 /\ AllPluginSetsNonEmpty(p)
       /\ ~Did(p, "FindById"))
    => LET n  == Len(received[p])
           tl == jobInfo[p].TaskList
       IN /\ ret[p] \notin {"panic", ErrPluginSetEmpty}
          /\ ~jobInfo[p].Job.IsNil
          /\ jobInfo[p].Job.Size = n
          /\ Len(tl) = n
          /\ \A i \in 1..n :
               tl[i].Sharding = i - 1 /\ tl[i].Input = received[p][i].Data

\* C1 witness: both assemblers have returned an aggregate of MaxChunks = 2
\* tasks with different payloads.
C1_Witness ==
  \A p \in Procs :
    /\ pc[p] = "persist"
    /\ Len(received[p]) = 2
    /\ received[p][1].Data # received[p][2].Data

\* C2: once a chunk with an empty plugin list has been delivered (first or
\* later), the submission has failed with ErrPluginSetEmpty and has written
\* nothing: no transaction, no Save, no BatchSave, no StartJob, no response.
C2_EmptyPluginSetWritesNothing ==
  \A p \in Procs :
    (\E i \in 1..Len(received[p]) : Len(received[p][i].PluginSet) = 0)
    => /\ pc[p] = "done"
       /\ ret[p] = ErrPluginSetEmpty
       /\ ~Did(p, "Begin") /\ ~Did(p, "Save") /\ ~Did(p, "BatchSave")
       /\ ~Did(p, "StartJob") /\ ~Did(p, "go") /\ go[p] = "none"
       /\ assigned[p] = 0
       /\ tx[p] = NoTx
       /\ response[p] = <<>>

\* C2 witness: the synchronous submission was rejected on its second chunk,
\* the asynchronous one on its first.
C2_Witness ==
  /\ Len(received["s"]) = 2
  /\ Len(received["s"][1].PluginSet) > 0
  /\ Len(received["s"][2].PluginSet) = 0
  /\ Len(received["a"]) = 1
  /\ Len(received["a"][1].PluginSet) = 0
  /\ ret["s"] = ErrPluginSetEmpty /\ ret["a"] = ErrPluginSetEmpty

\* The committed rows of the job that p saved.
RowsOf(p) ==
  [jobs  |-> { j \in db.jobs : j.Id = assigned[p] },
   tasks |-> { t \in db.tasks : t.JobId = assigned[p] }]

\* C3: if BatchSave failed after Save succeeded, no row of that job is ever
\* committed, and once the handler has returned the transaction is closed and
\* the handler returned exactly the error BatchSave returned.
C3_BatchSaveFailureRollsBack ==
  \A p \in Procs :
    (DidOut(p, "Save", "nil") /\ Failed(p, "BatchSave"))
    => /\ RowsOf(p) = NoRows
       /\ pc[p] = "done" => (ret[p] = ErrOf("BatchSave") /\ tx[p] = NoTx)
       /\ pc[p] \in {"rollback", "done", "dead"}

\* C3 witness: the synchronous handler returned after a BatchSave that failed
\* with one task row already inserted beside the job row.
C3_Witness ==
  /\ pc["s"] = "done"
  /\ Failed("s", "BatchSave")
  /\ DidOut("s", "Rollback", ret["s"])
  /\ ~Did("a", "BatchSave")
  /\ nextTaskId = 2

\* What a reader of the committed rows sees of the job with identifier id.
ReadView(id) ==
  [Job |-> FindById(db, id), TaskList |-> List(db, [jobId |-> id])]

\* C4: committed storage never shows a partial aggregate: a visible job row
\* comes with exactly Job.Size task rows, of shard indices 0..Size-1, and a
\* visible task row comes with its job row.
C4_NoPartialAggregateVisible ==
  /\ \A id \in 1..(nextJobId - 1) :
       LET v == ReadView(id)
       IN IF v.Job.IsNil
          THEN v.TaskList = <<>>
          ELSE /\ Len(v.TaskList) = v.Job.Size
               /\ { v.TaskList[i].Sharding : i \in 1..Len(v.TaskList) }
                    = 0..(v.Job.Size - 1)
  /\ \A t \in db.tasks : ~FindById(db, t.JobId).IsNil

\* C4 witness: one job is committed with its two tasks while the other
\* handler's transaction holds its job row and not yet its task rows.
C4_Witness ==
  \E p \in Procs : \E q \in Procs :
    /\ RowsOf(p).jobs # {}
    /\ Cardinality(RowsOf(p).tasks) = 2
    /\ tx[q].jobs # {}
    /\ tx[q].tasks = {}

\* The position in hist[p] of the handler's call of op, 0 if there is none.
At(p, op) ==
  IF Did(p, op)
  THEN CHOOSE i \in 1..Len(hist[p]) : hist[p][i].op = op
  ELSE 0

\* C5: a response of SyncSubmit is handed to SendAndClose only after StartJob
\* has returned without error, and it carries the storage-assigned identifier
\* and exactly the status and result StartJob left in the job.
C5_SyncResponseCarriesEngineResult ==
  \A p \in Procs :
    (Mode(p) = "sync" /\ response[p] # <<>>)
    => /\ engine[p] \in EngineOutcomes
       /\ engine[p].err = "nil"
       /\ response[p][1] = [Id |-> assigned[p], Status |-> engine[p].Status,
                            Result |-> engine[p].Result]
       /\ assigned[p] # 0
       /\ DidOut(p, "StartJobReturn", "nil")
       /\ At(p, "StartJobReturn") < At(p, "SendAndClose")

\* C5 witness: StartJob set status done and result R, and SyncSubmit answered
\* with them.
C5_Witness ==
  /\ ret["s"] = "nil"
  /\ engine["s"] = [Status |-> "done", Result |-> "R", err |-> "nil"]
  /\ response["s"] = <<[Id |-> assigned["s"], Status |-> "done",
                        Result |-> "R"]>>

\* C6: from the go statement on, AsyncSubmit stands at SendAndClose, which is
\* enabled whatever the detached unit is doing (not started, running or
\* returned), and the response carries the storage-assigned identifier.
C6_AsyncResponseDoesNotWait ==
  \A p \in Procs :
    Mode(p) = "async"
    => /\ (Did(p, "go") /\ Alive(p))
            => (pc[p] = "send" /\ ENABLED SendAndClose(p))
       /\ response[p] # <<>>
            => (response[p] = <<[Id |-> assigned[p]]>> /\ assigned[p] # 0)

\* C6 witness: AsyncSubmit has answered successfully while the detached unit
\* has not yet called StartJob.
C6_Witness ==
  /\ ret["a"] = "nil"
  /\ response["a"] # <<>>
  /\ go["a"] = "spawned"
  /\ engine["a"] = NotStarted

\* The calls of handler p that did not end well.
FailedCalls(p) ==
  { hist[p][i].op :
      i \in { j \in 1..Len(hist[p]) :
                hist[p][j].out \in ExtErrs \cup {"absent"} } }

\* The calls of receive, persist and reload.
PipelineCalls ==
  {"Recv", "Begin", "Save", "BatchSave", "Commit", "FindById", "List"}

\* The errors a handler can return.
Errors == ExtErrs \cup {ErrPluginSetEmpty, ErrJobNotFound}

\* C7: after a failure of receive, persist or reload the handler only unwinds
\* and returns an error: no response is handed to SendAndClose and StartJob
\* is neither called nor spawned.  After a failure of StartJob, SyncSubmit
\* returns that error without a response.  A response is handed over only
\* when no earlier step failed, and a handler that panicked or died with the
\* process has handed over none.
C7_FailClosed ==
  \A p \in Procs :
    LET failed   == FailedCalls(p)
        pipeline == (failed \cap PipelineCalls) # {}
                      \/ ret[p] = ErrPluginSetEmpty
    IN /\ pipeline
          => /\ response[p] = <<>>
             /\ ~Did(p, "StartJob") /\ ~Did(p, "go")
             /\ go[p] = "none" /\ engine[p] = NotStarted
             /\ pc[p] \in {"rollback", "done", "dead"}
             /\ pc[p] = "done" => ret[p] \in Errors
       /\ (Mode(p) = "sync" /\ "StartJobReturn" \in failed)
          => /\ response[p] = <<>>
             /\ pc[p] = "done"
             /\ ret[p] = ErrOf("StartJob")
             /\ ret[p] = engine[p].err
       /\ response[p] # <<>>
          => /\ ~pipeline
             /\ failed \subseteq {"SendAndClose"}
             /\ ret[p] \in {"nil", ErrOf("SendAndClose")}
             /\ ret[p] = "nil" <=> failed = {}
       /\ ret[p] \in {"panic", "killed"} => response[p] = <<>>

\* C7 witness: the synchronous submission failed in StartJob and the
\* asynchronous one in the reload's List, both after their commit.
C7_Witness ==
  /\ DidOut("s", "StartJobReturn", ErrOf("StartJob")) /\ pc["s"] = "done"
  /\ Failed("a", "List") /\ pc["a"] = "done"
  /\ RowsOf("s").jobs # {} /\ RowsOf("a").jobs # {}

\* The call before the i-th call of handler p.
Prev(p, i) ==
  IF i > 1 THEN hist[p][i - 1] ELSE [op |-> "none", out |-> "none"]

\* The i-th call of handler p comes directly after the call the pipeline
\* puts before it, and after that call's success.
InOrder(p, i) ==
  LET op   == hist[p][i].op
      prev == Prev(p, i)
  IN CASE op = "Recv" ->
            prev.op = "none" \/ prev = [op |-> "Recv", out |-> "chunk"]
       [] op = "Begin" -> prev = [op |-> "Recv", out |-> "EOF"]
       [] op = "Save" -> prev = [op |-> "Begin", out |-> "nil"]
       [] op = "BatchSave" -> prev = [op |-> "Save", out |-> "nil"]
       [] op = "Commit" -> prev = [op |-> "BatchSave", out |-> "nil"]
       [] op = "Rollback" ->
            prev.op \in {"Save", "BatchSave"} /\ prev.out \in ExtErrs
       [] op = "FindById" -> prev = [op |-> "Commit", out |-> "nil"]
       [] op = "List" -> prev = [op |-> "FindById", out |-> "row"]
       [] op = "StartJob" ->
            Mode(p) = "sync" /\ prev = [op |-> "List", out |-> "nil"]
       [] op = "go" ->
            Mode(p) = "async" /\ prev = [op |-> "List", out |-> "nil"]
       [] op = "StartJobReturn" ->
            prev = [op |-> "StartJob", out |-> "called"]
       [] op = "SendAndClose" ->
            IF Mode(p) = "sync"
            THEN prev = [op |-> "StartJobReturn", out |-> "nil"]
            ELSE prev = [op |-> "go", out |-> "spawned"]
       [] OTHER -> FALSE

\* C8: the calls of one submission occur in the pipeline's order, none
\* skipped: the transaction begins right after end-of-stream, the reload
\* right after the successful commit, StartJob is called (sync) or spawned
\* (async) right after the successful reload, and the response is handed
\* over right after StartJob returned (sync) or was spawned (async); the
\* detached unit runs only once spawned.
C8_StepsInStrictOrder ==
  \A p \in Procs :
    /\ \A i \in 1..Len(hist[p]) : InOrder(p, i)
    /\ go[p] # "none" => Did(p, "go")
    /\ response[p] # <<>> => Did(p, "SendAndClose")

\* C8 witness: both submissions ran their whole pipeline and answered.
C8_Witness ==
  \A p \in Procs : DidOut(p, "SendAndClose", "nil") /\ Len(received[p]) = 2

\* C9: after a successful persist and a successful reload, the aggregate
\* holds the job under its storage-assigned identifier and exactly one task
\* per assembled task, with the same shard index and input, a generated
\* identifier and the job's identifier, whatever the other submission did
\* meanwhile.
C9_ReloadRoundTrip ==
  \A p \in Procs :
    DidOut(p, "List", "nil")
    => LET n  == Len(received[p])
           tl == jobInfo[p].TaskList
       IN /\ jobInfo[p].Job.Id = assigned[p]
          /\ jobInfo[p].Job.Size = n
          /\ Len(tl) = n
          /\ { <<tl[i].Sharding, tl[i].Input>> : i \in 1..Len(tl) }
               = { <<i - 1, received[p][i].Data>> : i \in 1..n }
          /\ \A i \in 1..Len(tl) : tl[i].Id # 0 /\ tl[i].JobId = assigned[p]
          /\ Cardinality({ tl[i].Id : i \in 1..Len(tl) }) = n

\* C9 witness: both submissions reloaded two tasks each after transactions
\* that interleaved (the job saved first got the later task identifiers).
C9_Witness ==
  /\ \A p \in Procs : DidOut(p, "List", "nil") /\ Len(received[p]) = 2
  /\ assigned["s"] < assigned["a"]
  /\ jobInfo["s"].TaskList[1].Id > jobInfo["a"].TaskList[1].Id
  /\ received["s"][1].Data # received["s"][2].Data

\* C10: on an empty stream the assembler returns an aggregate with no tasks
\* and a nil job, without error or crash.
C10_EmptyStreamCompletes ==
  \A p \in Procs :
    (StreamEnded(p) /\ received[p] = <<>>)
    => /\ jobInfo[p] = EmptyJobInfo
       /\ ret[p] # "panic"

\* C11: every AsyncNotify call made so far has returned to its caller, with
\* an unimplemented error.
C11_AsyncNotifyReturnsUnimplemented == notify \in {"none", "unimplemented"}

\* The last call handler p made.
LastCall(p) == hist[p][Len(hist[p])]

\* C12: once AsyncSubmit has spawned the detached unit, what it returns is
\* the outcome of SendAndClose alone and its response is the assigned
\* identifier, whatever StartJob does in the detached unit (not started,
\* running for ever, returned nil, returned an error): StartJob's error is
\* never what the handler returns.
C12_AsyncOutcomeIgnoresStartJob ==
  \A p \in Procs :
    (Mode(p) = "async" /\ Did(p, "go"))
    => /\ ret[p] # ErrOf("StartJob")
       /\ pc[p] \in {"send", "done", "dead"}
       /\ pc[p] = "send" => (ret[p] = "running" /\ response[p] = <<>>)
       /\ pc[p] = "dead" => (ret[p] = "killed" /\ response[p] = <<>>)
       /\ pc[p] = "done"
            => /\ LastCall(p).op = "SendAndClose"
               /\ ret[p] = LastCall(p).out
               /\ response[p] = <<[Id |-> assigned[p]]>>

\* C12 witness: the caller of AsyncSubmit got success and the identifier,
\* and StartJob then returned an error in the detached unit.
C12_Witness ==
  /\ ret["a"] = "nil"
  /\ response["a"] = <<[Id |-> assigned["a"]]>>
  /\ go["a"] = "returned"
  /\ engine["a"].err = ErrOf("StartJob")

\* C13: as long as every chunk delivered has a non-empty plugin list, the
\* assembled job carries the first chunk's name, joined plugin list, label,
\* source and exception policy (and, asynchronous, its type and notify flag),
\* whatever the later chunks carry, and every task is named after the first
\* chunk's job name and its own shard index and runs the first plugin of the
\* first chunk's pipeline.
C13_FirstEnvelopeAuthoritative ==
  \A p \in Procs :
    (received[p] # <<>> /\ AllPluginSetsNonEmpty(p) /\ ~Did(p, "FindById"))
    => LET first == received[p][1]
           job   == jobInfo[p].Job
           tl    == jobInfo[p].TaskList
       IN /\ ~job.IsNil
          /\ job.Name = first.Name
          /\ job.PluginSet = Join(first.PluginSet, ",")
          /\ job.Label = first.Label
          /\ job.Source = first.Source
          /\ job.TaskExceptionOperation = first.TaskExceptionOperation
          /\ Mode(p) = "async"
               => /\ job.Type = first.Type
                  /\ job.IsNotify = 1 <=> first.IsNotify
                  /\ job.IsNotify \in {0, 1}
          /\ Len(tl) = Len(received[p])
          /\ \A i \in 1..Len(tl) :
               /\ tl[i].Name = TaskName(first.Name, i - 1)
               /\ tl[i].Plugin = first.PluginSet[1]
               /\ \E k \in 1..Len(first.PluginSet) :
                    tl[i].Plugin = first.PluginSet[k]

\* C13 witness: both assemblers returned after a first chunk of job1 with
\* pipeline p1, p2 and a second chunk of the other envelope; the tasks are
\* job1-0 and job1-1 on p1 and the job's plugin list is "p1,p2".
C13_Witness ==
  \A p \in Procs :
    /\ pc[p] = "persist"
    /\ Len(received[p]) = 2
    /\ received[p][1].Name = "job1"
    /\ received[p][1].PluginSet = <<"p1", "p2">>
    /\ received[p][2] \in OtherChunks
    /\ jobInfo[p].Job.PluginSet = "p1,p2"
    /\ jobInfo[p].Job.Label = "l1"
    /\ jobInfo[p].TaskList[1].Name = "job1-0"
    /\ jobInfo[p].TaskList[2].Name = "job1-1"
    /\ jobInfo[p].TaskList[2].Plugin = "p1"

\* The number of calls of op in hist[p].
Count(p, op) == Cardinality({ i \in 1..Len(hist[p]) : hist[p][i].op = op })

\* C14: once FindById has returned no row and no error, the submission has
\* ended with ErrJobNotFound: the task list was not queried, FindById was
\* called once, StartJob was neither called nor spawned, and no response was
\* handed to the transport.
C14_AbsentJobIsHardFailure ==
  \A p \in Procs :
    DidOut(p, "FindById", "absent")
    => /\ pc[p] = "done"
       /\ ret[p] = ErrJobNotFound
       /\ LastCall(p) = [op |-> "FindById", out |-> "absent"]
       /\ Count(p, "FindById") = 1
       /\ ~Did(p, "List")
       /\ ~Did(p, "StartJob") /\ ~Did(p, "go") /\ go[p] = "none"
       /\ engine[p] = NotStarted
       /\ ~Did(p, "SendAndClose")
       /\ response[p] = <<>>

\* C14 witness: both submissions committed their rows and both reloads found
\* no job row.
C14_Witness ==
  \A p \in Procs :
    /\ DidOut(p, "Commit", "nil")
    /\ RowsOf(p).jobs # {}
    /\ DidOut(p, "FindById", "absent")
    /\ ret[p] = ErrJobNotFound

\* C15: every task row a handler has written through its transaction carries
\* the identifier the store assigned to that handler's job in the same
\* transaction, concurrent submissions are assigned different identifiers, and
\* every committed task row carries the identifier of a job whose transaction
\* committed, never 0; a committed submission has all its tasks under its own
\* identifier.
C15_TaskRowsCarryOwnJobId ==
  /\ \A p \in Procs :
       /\ \A t \in tx[p].tasks : assigned[p] # 0 /\ t.JobId = assigned[p]
       /\ \A j \in tx[p].jobs : j.Id = assigned[p]
       /\ \A q \in Procs :
            (p # q /\ assigned[p] # 0) => assigned[p] # assigned[q]
       /\ DidOut(p, "Commit", "nil")
            => Cardinality(RowsOf(p).tasks) = Len(received[p])
  /\ \A t \in db.tasks :
       /\ t.JobId # 0
       /\ \E p \in Procs : t.JobId = assigned[p] /\ DidOut(p, "Commit", "nil")

\* C15 witness: two concurrent submissions of two tasks each have committed,
\* their transactions having been open at the same time.
C15_Witness ==
  /\ \A p \in Procs :
       DidOut(p, "Commit", "nil") /\ Cardinality(RowsOf(p).tasks) = 2
  /\ assigned["s"] = 2 /\ assigned["a"] = 1
  /\ \E t \in RowsOf("a").tasks : \E u \in RowsOf("s").tasks : u.Id < t.Id

\* C16: once AsyncSubmit has spawned the detached unit, no step of the request
\* path changes its JobInfo; whatever the detached unit does to it, at whatever
\* moment, changes the job's status and result only, the identifier in it stays
\* the storage-assigned one, and the response carries that identifier.
C16_RequestPathOnlyReadsId ==
  [][\A p \in Procs :
       (Mode(p) = "async" /\ Did(p, "go"))
       => /\ hist'[p] # hist[p] => jobInfo'[p] = jobInfo[p]
          /\ pc'[p] # pc[p] => jobInfo'[p] = jobInfo[p]
          /\ [jobInfo'[p] EXCEPT !.Job.Status = jobInfo[p].Job.Status,
                                 !.Job.Result = jobInfo[p].Job.Result]
               = jobInfo[p]
          /\ assigned'[p] = assigned[p]
          /\ jobInfo'[p].Job.Id = assigned[p]
          /\ response'[p] # <<>> => response'[p] = <<[Id |-> assigned[p]]>>]_vars

\* C16 witness: the request path has answered with the assigned identifier
\* and the detached unit has set the status and result of the same job.
C16_Witness ==
  /\ response["a"] = <<[Id |-> assigned["a"]]>>
  /\ assigned["a"] = 2
  /\ go["a"] = "returned"
  /\ jobInfo["a"].Job.Id = 2
  /\ jobInfo["a"].Job.Status = "partial"
  /\ jobInfo["a"].Job.Result = "R2"

\* The number of times StartJob was invoked for p's submission: by the
\* handler itself (synchronous) or by its detached unit once it was scheduled.
Invoked(p) ==
  IF Mode(p) = "sync"
  THEN Count(p, "StartJob")
  ELSE IF go[p] \in {"running", "returned", "killed"} THEN 1 ELSE 0

\* Receive, persist and reload all succeeded for p's submission.
AllSucceeded(p) ==
  /\ StreamEnded(p) /\ received[p] # <<>> /\ AllPluginSetsNonEmpty(p)
  /\ DidOut(p, "Commit", "nil")
  /\ DidOut(p, "FindById", "row") /\ DidOut(p, "List", "nil")

\* Nothing of p's submission runs or will run any more.
Settled(p) == ~Alive(p) /\ go[p] # "spawned"

\* The calls a submission makes once at most.
OnceCalls ==
  {"Begin", "Save", "BatchSave", "Commit", "Rollback", "FindById", "List",
   "StartJob", "go", "StartJobReturn", "SendAndClose"}

\* C17: no call of the pipeline is made twice for one submission, the
\* transaction is opened at most once, StartJob is invoked at most once and
\* only after receive, persist and reload all succeeded, and a submission of
\* which nothing runs any more and whose three steps succeeded has had
\* StartJob invoked exactly once.
C17_StartJobExactlyOnceIffAllSucceeded ==
  \A p \in Procs :
    /\ \A op \in OnceCalls : Count(p, op) <= 1
    /\ Invoked(p) <= 1
    /\ Invoked(p) = 1 => AllSucceeded(p)
    /\ (Settled(p) /\ AllSucceeded(p)) => Invoked(p) = 1

\* p's submission failed after its transaction committed.
FailedAfterCommit(p) ==
  /\ DidOut(p, "Commit", "nil")
  /\ pc[p] = "done"
  /\ ret[p] \in {ErrOf("FindById"), ErrJobNotFound, ErrOf("List"),
                  ErrOf("StartJob")}

\* C18: the commit makes visible exactly the rows written through the
\* transaction, and from then on no step changes the committed rows of that
\* job: when the reload fails (either mode) or StartJob fails (SyncSubmit) the
\* caller gets the error and the job row and all its task rows stay in
\* storage as committed.
C18_NoCompensatingWrite ==
  [][\A p \in Procs :
       /\ (~DidOut(p, "Commit", "nil") /\ DidOut(p, "Commit", "nil")')
            => RowsOf(p)' = [jobs |-> tx[p].jobs, tasks |-> tx[p].tasks]
       /\ DidOut(p, "Commit", "nil") => RowsOf(p)' = RowsOf(p)
       /\ FailedAfterCommit(p)'
            => /\ Cardinality(RowsOf(p)'.jobs) = 1
               /\ Cardinality(RowsOf(p)'.tasks) = Len(received'[p])
               /\ response'[p] = <<>>]_vars

\* C18 witness: SyncSubmit returned StartJob's error and AsyncSubmit returned
\* the reload's List error, each with its job row and two task rows committed.
C18_Witness ==
  /\ FailedAfterCommit("s") /\ ret["s"] = ErrOf("StartJob")
  /\ FailedAfterCommit("a") /\ ret["a"] = ErrOf("List")
  /\ \A p \in Procs :
       /\ Cardinality(RowsOf(p).jobs) = 1
       /\ Cardinality(RowsOf(p).tasks) = 2

\* A job without the three fields in which the two modes may differ.
ModeNeutral(job) ==
  IF job.IsNil THEN job
  ELSE [job EXCEPT !.Type = "", !.IsAsync = 0, !.IsNotify = 0]

\* C19: whenever the two assemblers have been delivered the same chunks with
\* the same read outcomes, they have returned the same error or not, hold the
\* same task list and the same job apart from its type, async flag and notify
\* flag; the synchronous job has no type, no notify flag and (once returned to
\* SyncSubmit) async flag 0, the asynchronous job has the first chunk's type,
\* async flag 1 and notify flag 1 exactly when the first chunk's flag is set.
C19_AssemblersAgree ==
  (received["s"] = received["a"] /\ hist["s"] = hist["a"])
  => /\ ret["s"] = ret["a"]
     /\ jobInfo["s"].TaskList = jobInfo["a"].TaskList
     /\ ModeNeutral(jobInfo["s"].Job) = ModeNeutral(jobInfo["a"].Job)
     /\ ~jobInfo["s"].Job.IsNil
          => LET first == received["s"][1]
                 sj    == jobInfo["s"].Job
                 aj    == jobInfo["a"].Job
             IN /\ sj.Type = "" /\ sj.IsAsync = 0 /\ sj.IsNotify = 0
                /\ aj.Type = first.Type
                /\ aj.IsAsync = 1
                /\ aj.IsNotify = (IF first.IsNotify THEN 1 ELSE 0)

\* C19 witness: both assemblers returned the aggregate of the same two chunks
\* of different envelopes, the first with type t2 and the notify flag unset.
C19_Witness ==
  /\ received["s"] = received["a"]
  /\ hist["s"] = hist["a"]
  /\ Len(received["s"]) = 2
  /\ received["s"][1] \in OtherChunks
  /\ received["s"][2] \in Chunks
  /\ pc["s"] = "persist" /\ pc["a"] = "persist"
  /\ jobInfo["a"].Job.Type = "t2"
  /\ jobInfo["a"].Job.IsNotify = 0
  /\ jobInfo["s"].Job.Label = "l2"

====
